---- MODULE Spec2Model ----
(***************************************************************************)
(* Model of fantasyleague/sleeper_api.py: the safe numeric conversions,    *)
(* the team normaliser get_league_teams, the cached player catalog         *)
(* get_players and the roster player resolver get_roster_players, over     *)
(* JSON payloads returned by the Sleeper API; and of the views team_list   *)
(* and team_detail of fantasyleague/views.py over the local Teams table.   *)
(*                                                                         *)
(* JSON / Python values are tagged records [k, n, s]:                      *)
(*   k = "missing"  the key is not in the mapping                          *)
(*   k = "null"     None                                                   *)
(*   k = "bool"     n = 0 / 1                                              *)
(*   k = "int"      n = the integer                                        *)
(*   k = "big"      an integer too large for a float (such as 10**400)     *)
(*   k = "float"    a finite float, n = the value in units of 1/FloatScale *)
(*   k = "inf"      float('inf') (json parses 1e999 or Infinity to it)     *)
(*   k = "nan"      float('nan')                                           *)
(*   k = "str"      s = the string                                         *)
(*   k = "list"     some non-empty list                                    *)
(*   k = "dict"     some non-empty mapping                                 *)
(* A call's outcome is [exc, val]: exc = "none" when it returned val, else *)
(* the name of the exception that left the function.                       *)
(***************************************************************************)
EXTENDS Integers, Sequences, FiniteSets, TLC

VARIABLES
    scenario,     \* which operation this behaviour exercises
    arg,          \* safe_int / safe_float: [value, default]
    leagueResp,   \* outcome of GET /league/{id}
    usersResp,    \* outcome of GET /league/{id}/users
    rostersResp,  \* outcome of GET /league/{id}/rosters
    playersResp,  \* outcome of GET /players/nfl
    cache,        \* the cache entry under SLEEPER_PLAYERS_CACHE_KEY
    rosterArg,    \* get_roster_players: the roster_id asked for
    ret,          \* the last call: [op, exc, val]
    localTeams,   \* the rows of the local Teams table
    calls         \* get_players calls in progress, by caller

vars == <<scenario, arg, leagueResp, usersResp, rostersResp, playersResp, cache, rosterArg,
          ret, localTeams, calls>>

\* ------------------------------------------------------------- bounds
\* Integer literals a numeric string may hold: -ParseMax .. ParseMax.
ParseMax == 12
\* Most names a numeric divisions setting is asked to synthesise.
MaxDivisionCount == 3
\* Most users, and most rosters, a league's payloads hold.
MaxUsers == 2
MaxRosters == 2
\* Longest players / starters list, and longest reserve list, of a roster.
MaxPlayers == 2
MaxReserve == 1
\* Teams of the league and rows of the local Teams table seen by the views.
MaxTeams == 2
MaxLocal == 2
\* Team ids a detail URL may carry: 0 .. MaxTeamId.
MaxTeamId == 3
\* get_players calls made one after the other, and concurrent callers.
MaxCalls == 5
MaxCallers == 2

\* ------------------------------------------------------- Python values
FloatScale == 100 * 100

J(k, n, s) == [k |-> k, n |-> n, s |-> s]
JMissing == J("missing", 0, "")
JNull == J("null", 0, "")
JBool(b) == J("bool", IF b THEN 1 ELSE 0, "")
JInt(n) == J("int", n, "")
JBig == J("big", 0, "")
JFloat(n) == J("float", n, "")
JInf == J("inf", 0, "")
JNan == J("nan", 0, "")
JStr(s) == J("str", 0, s)
JList == J("list", 0, "")
JDict == J("dict", 0, "")

Ok(v) == [exc |-> "none", val |-> v]
Raise(e) == [exc |-> e, val |-> JNull]

\* mapping.get(key): a missing key reads as None.
Get(field) == IF field.k = "missing" THEN JNull ELSE field

\* mapping.get(key, default)
GetOr(field, default) == IF field.k = "missing" THEN default ELSE field

\* bool(v)
Truthy(v) ==
    CASE v.k \in {"missing", "null"} -> FALSE
      [] v.k \in {"bool", "int", "float"} -> v.n # 0
      [] v.k = "str" -> v.s # ""
      [] OTHER -> TRUE

\* a or b
PyOr(a, b) == IF Truthy(a) THEN a ELSE b

\* Truncation toward zero, as int() does on a float.
Trunc(n) == IF n >= 0 THEN n \div FloatScale ELSE -((-n) \div FloatScale)

IsIntLiteral(s) == \E n \in -ParseMax..ParseMax : ToString(n) = s
IntLiteral(s) == CHOOSE n \in -ParseMax..ParseMax : ToString(n) = s

\* int(v)
PyInt(v) ==
    CASE v.k \in {"int", "bool"} -> Ok(JInt(v.n))
      [] v.k = "big" -> Ok(JBig)
      [] v.k = "float" -> Ok(JInt(Trunc(v.n)))
      [] v.k = "inf" -> Raise("OverflowError")
      [] v.k = "nan" -> Raise("ValueError")
      [] v.k = "str" -> IF IsIntLiteral(v.s) THEN Ok(JInt(IntLiteral(v.s)))
                        ELSE Raise("ValueError")
      [] OTHER -> Raise("TypeError")

\* float(v); the only non-integer literal among the strings used is "1.5".
PyFloat(v) ==
    CASE v.k \in {"int", "bool"} -> Ok(JFloat(v.n * FloatScale))
      [] v.k = "big" -> Raise("OverflowError")
      [] v.k \in {"float", "inf", "nan"} -> Ok(v)
      [] v.k = "str" -> IF IsIntLiteral(v.s)
                        THEN Ok(JFloat(IntLiteral(v.s) * FloatScale))
                        ELSE IF v.s = "1.5" THEN Ok(JFloat(3 * (FloatScale \div 2)))
                        ELSE Raise("ValueError")
      [] OTHER -> Raise("TypeError")

\* safe_int(value, default)
safe_int(value, default) ==
    IF value.k = "null" THEN Ok(default)
    ELSE LET r == PyInt(value)
         IN  IF r.exc \in {"ValueError", "TypeError"} THEN Ok(default) ELSE r

\* safe_float(value, default)
safe_float(value, default) ==
    IF value.k = "null" THEN Ok(default)
    ELSE LET r == PyFloat(value)
         IN  IF r.exc \in {"ValueError", "TypeError"} THEN Ok(default) ELSE r

\* --------------------------------------------------- conversion inputs
ConvValues ==
    {JMissing, JNull, JBool(TRUE), JBool(FALSE), JBig, JInf, JNan, JList, JDict}
    \cup {JInt(n) : n \in {-3, 0, 7}}
    \cup {JFloat(n) : n \in {0, 27 * (FloatScale \div 10), -(27 * (FloatScale \div 10))}}
    \cup {JStr(s) : s \in {"", "12", "-3", "1.5", "abc"}}

ConvDefaults == {JInt(0), JFloat(0), JInt(-1), JNull}

NoResp == [k |-> "unused"]
\* cache.get finds nothing under the key
NoCache == [k |-> "absent"]
NoRet == [op |-> "none", exc |-> "none", val |-> JNull]
NoDb == <<>>
NoCalls == <<>>

InitConv ==
    /\ scenario = "conv"
    /\ arg \in [value : ConvValues, default : ConvDefaults]
    /\ leagueResp = NoResp
    /\ usersResp = NoResp
    /\ rostersResp = NoResp
    /\ playersResp = NoResp
    /\ cache = NoCache
    /\ rosterArg = JNull
    /\ ret = NoRet
    /\ localTeams = NoDb
    /\ calls = NoCalls

\* A caller reads a field of a mapping and hands it to safe_int.
SafeIntCall ==
    /\ scenario = "conv"
    /\ LET r == safe_int(Get(arg.value), arg.default)
       IN  ret' = [op |-> "safe_int", exc |-> r.exc, val |-> r.val]
    /\ UNCHANGED <<scenario, arg, leagueResp, usersResp, rostersResp, playersResp, cache,
                   rosterArg, localTeams, calls>>

SafeFloatCall ==
    /\ scenario = "conv"
    /\ LET r == safe_float(Get(arg.value), arg.default)
       IN  ret' = [op |-> "safe_float", exc |-> r.exc, val |-> r.val]
    /\ UNCHANGED <<scenario, arg, leagueResp, usersResp, rostersResp, playersResp, cache,
                   rosterArg, localTeams, calls>>

NextConv == SafeIntCall \/ SafeFloatCall

SpecConv == InitConv /\ [][NextConv]_vars

\* ------------------------------------------------------------ claim C1
IsNumeric(v) == v.k \in {"bool", "int", "big", "float", "inf", "nan"}

\* C1: safe_int and safe_float never raise; on None, a missing key or a
\* non-numeric value they return the caller's default, and on a numeric
\* value they return its integer / float conversion.
C1_NeverRaises ==
    ret.op \in {"safe_int", "safe_float"} =>
        /\ ret.exc = "none"
        /\ ~IsNumeric(arg.value) /\ arg.value.k # "str" => ret.val = arg.default
        /\ arg.value.k = "int" /\ ret.op = "safe_int" => ret.val = arg.value
        /\ arg.value.k = "float" /\ ret.op = "safe_float" => ret.val = arg.value

\* ------------------------------------------------ external data client
\* A fetch outcome is [k, ...]: k = "transport" (connection error or
\* timeout), "http" (raise_for_status on an error status) or "parse"
\* (response.json() fails) when the request fails, else the shape of the JSON
\* body: "null", "dict" (a non-empty mapping) or "list" (with its items).
FetchFailed(resp) == resp.k \in {"transport", "http", "parse"}

PyNone == [k |-> "null"]
EmptyList == [k |-> "list", items |-> <<>>]

\* get_league_info(league_id): the body, or None on a falsy id or a failure.
get_league_info(league_id, resp) ==
    IF ~Truthy(league_id) THEN PyNone
    ELSE IF FetchFailed(resp) THEN PyNone
    ELSE resp

\* get_league_users(league_id): the body, or [] on a falsy id or a failure.
get_league_users(league_id, resp) ==
    IF ~Truthy(league_id) THEN EmptyList
    ELSE IF FetchFailed(resp) THEN EmptyList
    ELSE resp

\* get_league_rosters(league_id): the body, or [] on a falsy id or a failure.
get_league_rosters(league_id, resp) ==
    IF ~Truthy(league_id) THEN EmptyList
    ELSE IF FetchFailed(resp) THEN EmptyList
    ELSE resp

\* get_team_avatar_url(avatar_id, thumbnail=True)
get_team_avatar_url(avatar_id) ==
    IF ~Truthy(avatar_id) THEN JStr("")
    ELSE JStr("https://sleepercdn.com/avatars/thumbs/" \o avatar_id.s)

\* ------------------------------------------------------ Python ordering
\* The strings the model uses, in the order of Python's str comparison
\* (by code point: upper case before lower case).
StrOrder ==
    <<"", "1.5", "12", "Ann", "Bob", "Cy">>
    \o [i \in 1..9 |-> "Division " \o ToString(i)]
    \o <<"East", "Unassigned", "Unknown Team", "West", "ann", "bob">>

StrRank(s) == CHOOSE i \in 1..Len(StrOrder) : StrOrder[i] = s

IsNumber(v) == v.k \in {"bool", "int", "float"}
NumVal(v) == IF v.k = "float" THEN v.n ELSE v.n * FloatScale

\* a == b
PyEq(a, b) ==
    IF IsNumber(a) /\ IsNumber(b) THEN NumVal(a) = NumVal(b) ELSE a = b

\* a < b is defined (raises no TypeError)
Comparable(a, b) ==
    \/ a.k = "str" /\ b.k = "str"
    \/ IsNumber(a) /\ IsNumber(b)

\* a < b, for Comparable(a, b)
PyLt(a, b) ==
    IF a.k = "str" THEN StrRank(a.s) < StrRank(b.s) ELSE NumVal(a) < NumVal(b)

\* Tuple comparison (d1, n1) < (d2, n2): the first items that differ under
\* == are compared with <; equal tuples compare without touching <.
PairComparable(p, q) ==
    IF ~PyEq(p[1], q[1]) THEN Comparable(p[1], q[1])
    ELSE IF ~PyEq(p[2], q[2]) THEN Comparable(p[2], q[2])
    ELSE TRUE

PairLt(p, q) ==
    IF ~PyEq(p[1], q[1]) THEN PyLt(p[1], q[1])
    ELSE IF ~PyEq(p[2], q[2]) THEN PyLt(p[2], q[2])
    ELSE FALSE
\* (mutant) the division left out of the sort key
DivisionKey_NameOnly(team) == <<JStr(""), team.team_name>>

\* The sort key of line 280, (division or '', team_name), and of line 282,
\* team_name alone (as a pair whose first item is constant, except that two
\* equal names are still compared with <, which None does not support).
DivisionKey(team) == <<PyOr(team.division, JStr("")), team.team_name>>
NameKey(team) == <<JStr(""), team.team_name>>

NameComparable(p, q) == Comparable(p[2], q[2])

KeyOf(team, byDivision) == IF byDivision THEN DivisionKey(team) ELSE NameKey(team)

\* list.sort(key=...) is stable: an item goes after the items not greater.
RECURSIVE InsertSorted(_, _, _)
InsertSorted(sorted, team, byDivision) ==
    IF sorted = <<>> THEN <<team>>
    ELSE IF PairLt(KeyOf(team, byDivision), KeyOf(sorted[Len(sorted)], byDivision))
         THEN Append(InsertSorted(SubSeq(sorted, 1, Len(sorted) - 1), team, byDivision),
                     sorted[Len(sorted)])
         ELSE Append(sorted, team)

RECURSIVE SortTeams(_, _)
SortTeams(teams, byDivision) ==
    IF teams = <<>> THEN <<>>
    ELSE InsertSorted(SortTeams(SubSeq(teams, 1, Len(teams) - 1), byDivision),
                      teams[Len(teams)], byDivision)

\* The sort raises TypeError exactly when two of the keys cannot be ordered.
SortRaises(teams, byDivision) ==
    \E i, j \in 1..Len(teams) :
        /\ i < j
        /\ IF byDivision
           THEN ~PairComparable(DivisionKey(teams[i]), DivisionKey(teams[j]))
           ELSE ~NameComparable(NameKey(teams[i]), NameKey(teams[j]))

\* ------------------------------------------------ get_league_teams
\* A league body that is a mapping is [k |-> "dict", settings, divisions]:
\* settings is "missing", "null" or "dict"; divisions is settings.divisions,
\* [k, n, items]: a scalar as in J (n its number), or k = "list" with its
\* items, or k = "dict" / "str" with n = 0 when empty.
DV(k, n, items) == [k |-> k, n |-> n, items |-> items]

\* bool(divisions_raw), where a missing key reads as the default []
DivTruthy(raw) ==
    CASE raw.k \in {"missing", "null"} -> FALSE
      [] raw.k = "list" -> raw.items # <<>>
      [] raw.k \in {"inf", "nan"} -> TRUE
      [] OTHER -> raw.n # 0

\* lines 179-189: the division list, or the exception that escapes
ResolveDivisions(league_info) ==
    IF league_info.k = "null" THEN Ok(<<>>)
    ELSE IF league_info.k = "list" THEN Raise("AttributeError")
    ELSE IF league_info.settings # "dict" THEN Ok(<<>>)
    ELSE LET raw == league_info.divisions
         IN  IF ~DivTruthy(raw) THEN Ok(<<>>)
             ELSE IF raw.k = "list"
                  THEN IF raw.items[1].k = "str" THEN Ok(raw.items) ELSE Ok(<<>>)
             ELSE IF raw.k \in {"bool", "int", "float", "inf", "nan"}
                  THEN LET r == PyInt(J(raw.k, raw.n, ""))
                       IN  IF r.exc # "none" THEN r
                           ELSE IF r.val.n <= 0 THEN Ok(<<>>)
                           ELSE Ok([i \in 1..r.val.n |-> JStr("Division " \o ToString(i))])
             ELSE Ok(<<>>)
\* (mutant) the first roster of an owner kept instead of the last
RosterIndexFor_FirstWins(rosters, user_id) ==
    LET S == {i \in 1..Len(rosters) :
                /\ Truthy(Get(rosters[i].owner_id))
                /\ PyEq(rosters[i].owner_id, user_id)}
    IN  IF S = {} THEN 0 ELSE CHOOSE i \in S : \A j \in S : i <= j

\* lines 201-207: the roster kept under the user's id in roster_by_owner
\* (a later roster of the same owner replaces an earlier one), 0 when none.
RosterIndexFor(rosters, user_id) ==
    LET S == {i \in 1..Len(rosters) :
                /\ Truthy(Get(rosters[i].owner_id))
                /\ PyEq(rosters[i].owner_id, user_id)}
    IN  IF S = {} THEN 0 ELSE CHOOSE i \in S : \A j \in S : j <= i

Hashable(v) == v.k \notin {"list", "dict"}
\* (mutant) display_name preferred to the metadata team name
ResolveTeamName_DisplayFirst(user) ==
    LET metaName == IF user.metadata = "dict" THEN Get(user.team_name) ELSE JNull
    IN  PyOr(PyOr(Get(user.display_name), metaName),
             GetOr(user.username, JStr("Unknown Team")))

\* lines 210-211
ResolveTeamName(user) ==
    LET metaName == IF user.metadata = "dict" THEN Get(user.team_name) ELSE JNull
    IN  PyOr(PyOr(metaName, Get(user.display_name)),
             GetOr(user.username, JStr("Unknown Team")))

\* lines 214-240
ResolveDivision(roster, divisions) ==
    IF divisions = <<>> THEN Ok(JNull)
    ELSE LET fromSettings == IF roster.settings = "dict" THEN Get(roster.sdivision)
                             ELSE JNull
             division_num == IF fromSettings.k = "null" THEN Get(roster.division)
                             ELSE fromSettings
         IN  IF division_num.k = "null" THEN Ok(JNull)
             ELSE LET r == PyInt(division_num)
                  IN  IF r.exc \in {"ValueError", "TypeError"} THEN Ok(JNull)
                      ELSE IF r.exc # "none" THEN r
                      ELSE IF r.val.k = "big" THEN Ok(JNull)
                      ELSE IF 1 <= r.val.n /\ r.val.n <= Len(divisions)
                           THEN Ok(divisions[r.val.n])
                      ELSE IF 0 <= r.val.n /\ r.val.n < Len(divisions)
                           THEN Ok(divisions[r.val.n + 1])
                      ELSE Ok(JNull)
\* (mutant) fpts_decimal taken as tenths
FDiv100_Tenths(x) == IF x.k = "float" THEN JFloat(x.n \div 10) ELSE x

\* float arithmetic of line 258 (the only infinity is +inf)
FDiv100(x) == IF x.k = "float" THEN JFloat(x.n \div 100) ELSE x
FAdd(x, y) ==
    IF x.k = "nan" \/ y.k = "nan" THEN JNan
    ELSE IF x.k = "inf" \/ y.k = "inf" THEN JInf
    ELSE JFloat(x.n + y.n)

\* roster settings: settings = roster.get('settings', {}) or {}
Setting(roster, f) == IF roster.settings = "dict" THEN Get(roster[f]) ELSE JNull

FirstRaise(rs) ==
    IF \E i \in 1..Len(rs) : rs[i].exc # "none"
    THEN rs[CHOOSE i \in 1..Len(rs) :
                /\ rs[i].exc # "none"
                /\ \A j \in 1..(i - 1) : rs[j].exc = "none"]
    ELSE Ok(JNull)

\* lines 209-276: the team_data of one matched user
BuildTeam(user, roster, divisions) ==
    LET division == ResolveDivision(roster, divisions)
        fpts == safe_float(Setting(roster, "fpts"), JFloat(0))
        fpts_decimal == safe_float(Setting(roster, "fpts_decimal"), JFloat(0))
        wins == safe_int(Setting(roster, "wins"), JInt(0))
        losses == safe_int(Setting(roster, "losses"), JInt(0))
        ties == safe_int(Setting(roster, "ties"), JInt(0))
        failure == FirstRaise(<<division, fpts, fpts_decimal, wins, losses, ties>>)
    IN  IF failure.exc # "none" THEN failure
        ELSE Ok([user_id |-> Get(user.user_id),
                 username |-> GetOr(user.username, JStr("")),
                 display_name |-> GetOr(user.display_name, JStr("")),
                 team_name |-> ResolveTeamName(user),
                 avatar |-> GetOr(user.avatar, JStr("")),
                 avatar_url |-> get_team_avatar_url(GetOr(user.avatar, JStr(""))),
                 roster_id |-> Get(roster.roster_id),
                 division |-> division.val,
                 wins |-> wins.val,
                 losses |-> losses.val,
                 ties |-> ties.val,
                 fpts |-> fpts.val,
                 fpts_decimal |-> fpts_decimal.val,
                 total_points |-> FAdd(fpts.val, FDiv100(fpts_decimal.val))])

\* lines 200-276: the loop over the first n users
RECURSIVE CombineUsers(_, _, _, _)
CombineUsers(users, n, rosters, divisions) ==
    IF n = 0 THEN Ok(<<>>)
    ELSE LET before == CombineUsers(users, n - 1, rosters, divisions)
             user_id == Get(users[n].user_id)
         IN  IF before.exc # "none" THEN before
             ELSE IF ~Truthy(user_id) THEN before
             ELSE IF ~Hashable(user_id) THEN Raise("TypeError")
             ELSE IF RosterIndexFor(rosters, user_id) = 0 THEN before
             ELSE LET team == BuildTeam(users[n],
                                        rosters[RosterIndexFor(rosters, user_id)],
                                        divisions)
                  IN  IF team.exc # "none" THEN team
                      ELSE Ok(Append(before.val, team.val))

\* Iterating a fetched body and calling .get on each element (lines 196, 200)
IterationError(body) ==
    CASE body.k = "null" -> "TypeError"
      [] body.k = "dict" -> "AttributeError"
      [] OTHER -> "none"

\* get_league_teams(league_id): [exc, val, divisions]; divisions is the
\* function's local division list (empty when it was not computed).
get_league_teams(league_id, lResp, uResp, rResp) ==
    IF ~Truthy(league_id) THEN [exc |-> "none", val |-> <<>>, divisions |-> <<>>]
    ELSE LET divs == ResolveDivisions(get_league_info(league_id, lResp))
             users == get_league_users(league_id, uResp)
             rosters == get_league_rosters(league_id, rResp)
             Fail(e) == [exc |-> e, val |-> <<>>,
                         divisions |-> IF divs.exc = "none" THEN divs.val ELSE <<>>]
         IN  IF divs.exc # "none" THEN Fail(divs.exc)
             ELSE IF IterationError(rosters) # "none" THEN Fail(IterationError(rosters))
             ELSE IF \E i \in 1..Len(rosters.items) :
                        /\ Truthy(Get(rosters.items[i].owner_id))
                        /\ ~Hashable(rosters.items[i].owner_id)
                  THEN Fail("TypeError")
             ELSE IF IterationError(users) # "none" THEN Fail(IterationError(users))
             ELSE LET teams == CombineUsers(users.items, Len(users.items),
                                            rosters.items, divs.val)
                  IN  IF teams.exc # "none" THEN Fail(teams.exc)
                      ELSE IF SortRaises(teams.val, divs.val # <<>>)
                           THEN Fail("TypeError")
                      ELSE [exc |-> "none",
                            val |-> SortTeams(teams.val, divs.val # <<>>),
                            divisions |-> divs.val]

\* ------------------------------------------------------ payload shapes
NoList == [k |-> "missing", items |-> <<>>]
ListOf(items) == [k |-> "list", items |-> items]

User(user_id, display_name) ==
    [user_id |-> user_id, username |-> JStr("ann"), display_name |-> display_name,
     metadata |-> "missing", team_name |-> JMissing, avatar |-> JStr("av1")]

Roster(roster_id, owner_id, sdivision) ==
    [roster_id |-> JInt(roster_id), owner_id |-> owner_id, settings |-> "dict",
     sdivision |-> sdivision, division |-> JMissing,
     wins |-> JInt(roster_id), losses |-> JInt(0), ties |-> JMissing,
     fpts |-> JInt(50), fpts_decimal |-> JInt(0), total_points |-> JMissing,
     players |-> NoList, starters |-> NoList, reserve |-> NoList]

League(settings, divisions) ==
    [k |-> "dict", settings |-> settings, divisions |-> divisions]

EastWest == DV("list", 0, <<JStr("East"), JStr("West")>>)

Failures == {[k |-> "transport"], [k |-> "http"], [k |-> "parse"]}

\* get_league_teams(league_id), called on the current remote payloads
GetLeagueTeams ==
    /\ scenario = "teams"
    /\ LET r == get_league_teams(arg.league_id, leagueResp, usersResp, rostersResp)
       IN  ret' = [op |-> "get_league_teams", exc |-> r.exc, val |-> r.val,
                   divisions |-> r.divisions]
    /\ UNCHANGED <<scenario, arg, leagueResp, usersResp, rostersResp, playersResp, cache,
                   rosterArg, localTeams, calls>>

NextTeams == GetLeagueTeams

\* -------------------------------------------- fetch outcomes (claim C2)
FetchUsers ==
    {ListOf(<<>>),
     ListOf(<<User(JStr("u1"), JStr("Ann"))>>),
     ListOf(<<User(JStr("u2"), JStr("Bob")), User(JStr("u1"), JStr("Ann"))>>)}

FetchRosters ==
    {ListOf(<<>>),
     ListOf(<<Roster(1, JStr("u1"), JInt(1))>>),
     ListOf(<<Roster(1, JStr("u1"), JInt(2)), Roster(2, JStr("u2"), JInt(1))>>)}

InitFetch ==
    /\ scenario = "teams"
    /\ arg \in [league_id : {JStr("L1"), JStr(""), JNull}]
    /\ leagueResp \in Failures \cup {[k |-> "null"], [k |-> "list"],
                                      League("dict", EastWest), League("missing", EastWest)}
    /\ usersResp \in Failures \cup {[k |-> "null"], [k |-> "dict"]} \cup FetchUsers
    /\ rostersResp \in Failures \cup {[k |-> "null"], [k |-> "dict"]} \cup FetchRosters
    /\ playersResp = NoResp
    /\ cache = NoCache
    /\ rosterArg = JNull
    /\ ret = NoRet
    /\ localTeams = NoDb
    /\ calls = NoCalls

SpecFetch == InitFetch /\ [][NextTeams]_vars

\* C2: get_league_teams never raises whatever the three fetches do (a list,
\* a non-list body, a transport or parse error): it returns a list, and the
\* empty list when the users fetch or the rosters fetch fails.
C2_FetchNeverRaises ==
    ret.op = "get_league_teams" =>
        /\ ret.exc = "none"
        /\ FetchFailed(usersResp) \/ FetchFailed(rostersResp) => ret.val = <<>>

\* ------------------------------------------ divisions (claims C3, C4)
\* Shapes of settings.divisions.
DivisionShapes ==
    {DV("missing", 0, <<>>), DV("null", 0, <<>>), DV("list", 0, <<>>), EastWest,
     DV("list", 0, <<JStr("East")>>),
     DV("list", 0, <<JStr("East"), JInt(5)>>),
     DV("list", 0, <<JInt(5), JStr("East")>>),
     DV("dict", 0, <<>>), DV("dict", 1, <<>>), DV("str", 1, <<>>),
     DV("bool", 1, <<>>), DV("bool", 0, <<>>),
     DV("float", 5 * (FloatScale \div 2), <<>>),
     DV("inf", 0, <<>>), DV("nan", 0, <<>>)}
    \cup {DV("int", n, <<>>) : n \in -1..MaxDivisionCount}

LeagueShapes ==
    Failures \cup {[k |-> "null"], League("missing", EastWest), League("null", EastWest)}
    \cup {League("dict", d) : d \in DivisionShapes}

\* Values of a roster's division index.
IndexValues ==
    {JMissing, JNull, JStr("2"), JStr("abc"), JStr(""), JBool(TRUE), JBig, JInf, JNan,
     JList, JFloat(3 * (FloatScale \div 2))}
    \cup {JInt(n) : n \in -1..(MaxDivisionCount + 1)}

IndexPairs ==
    (IndexValues \X {JMissing, JInt(2)}) \cup ({JMissing, JNull} \X IndexValues)

InitDivisions ==
    /\ scenario = "teams"
    /\ arg = [league_id |-> JStr("L1")]
    /\ leagueResp \in LeagueShapes
    /\ usersResp = ListOf(<<User(JStr("u1"), JStr("Ann"))>>)
    /\ \E p \in IndexPairs, st \in {"missing", "null", "dict"} :
          rostersResp = ListOf(<<[Roster(1, JStr("u1"), p[1])
                                    EXCEPT !.division = p[2], !.settings = st]>>)
    /\ playersResp = NoResp
    /\ cache = NoCache
    /\ rosterArg = JNull
    /\ ret = NoRet
    /\ localTeams = NoDb
    /\ calls = NoCalls

SpecDivisions == InitDivisions /\ [][NextTeams]_vars

\* The index a claim speaks of: settings.division, else the top-level one.
ClaimedIndex(roster) ==
    IF roster.settings = "dict" /\ roster.sdivision.k \notin {"missing", "null"}
    THEN roster.sdivision
    ELSE roster.division

\* The integer an index converts to, when it converts to one.
Converts(v) ==
    \/ v.k \in {"int", "bool", "float", "big"}
    \/ v.k = "str" /\ IsIntLiteral(v.s)

Converted(v) ==
    CASE v.k \in {"int", "bool"} -> v.n
      [] v.k = "float" -> Trunc(v.n)
      [] v.k = "big" -> MaxDivisionCount + ParseMax + 1
      [] OTHER -> IntLiteral(v.s)

ClaimedDivision(roster, divisions) ==
    LET v == ClaimedIndex(roster)
        N == Len(divisions)
    IN  IF ~Converts(v) THEN JNull
        ELSE IF 1 <= Converted(v) /\ Converted(v) <= N THEN divisions[Converted(v)]
        ELSE IF 0 <= Converted(v) /\ Converted(v) < N THEN divisions[Converted(v) + 1]
        ELSE JNull

\* C3: with a non-empty division list, the team of the matched roster is
\* always emitted, and its division is divisions[index-1] for 1 <= index <= N,
\* else divisions[index] for 0 <= index < N, else None; None too when the
\* index is absent or does not convert to an integer.
C3_DivisionIndex ==
    ret.op = "get_league_teams" /\ ret.divisions # <<>> =>
        /\ ret.exc = "none"
        /\ Len(ret.val) = 1
        /\ ret.val[1].division = ClaimedDivision(rostersResp.items[1], ret.divisions)

AllStrings(items) == \A i \in 1..Len(items) : items[i].k = "str"

ClaimedDivisions(league) ==
    IF league.k # "dict" \/ league.settings # "dict" THEN <<>>
    ELSE LET raw == league.divisions
         IN  IF raw.k = "list" /\ raw.items # <<>> /\ AllStrings(raw.items)
             THEN raw.items
             ELSE IF raw.k = "int" /\ raw.n > 0
             THEN [i \in 1..raw.n |-> JStr("Division " \o ToString(i))]
             ELSE <<>>

\* C4: the division list is settings.divisions itself when that is a
\* non-empty list of strings, "Division 1".."Division N" when it is a number
\* N, and empty for every other shape (no league info, no settings, an empty
\* list, a list not all of strings, a mapping, a boolean, zero or a negative
\* number).
C4_DivisionList ==
    /\ ret.op = "get_league_teams"
    /\ ret.exc = "none"
    /\ ~(leagueResp.k = "dict" /\ leagueResp.settings = "dict"
         /\ leagueResp.divisions.k \in {"float", "inf", "nan"})
    => ret.divisions = ClaimedDivisions(leagueResp)

\* ------------------------------------------------ team names (claim C5)
\* Shapes of a name field: missing, null, empty, or a name.
NameShapes(name) == {JMissing, JNull, JStr(""), JStr(name)}

\* Users in every shape of metadata.team_name, display_name and username.
NamedUsers ==
    {[User(JStr("u1"), dn) EXCEPT !.username = un, !.metadata = "dict", !.team_name = tn] :
        dn \in NameShapes("Bob"), un \in NameShapes("ann"), tn \in NameShapes("Cy")}
    \cup {[User(JStr("u1"), dn) EXCEPT !.username = un, !.metadata = md] :
        dn \in NameShapes("Bob"), un \in NameShapes("ann"), md \in {"missing", "null"}}

InitNames ==
    /\ scenario = "teams"
    /\ arg = [league_id |-> JStr("L1")]
    /\ leagueResp \in {[k |-> "transport"], League("dict", EastWest)}
    /\ \E u \in NamedUsers :
          usersResp \in {ListOf(<<u>>), ListOf(<<u, User(JStr("u2"), JStr("Ann"))>>)}
    /\ rostersResp = ListOf(<<Roster(1, JStr("u1"), JInt(1)), Roster(2, JStr("u2"), JInt(1))>>)
    /\ playersResp = NoResp
    /\ cache = NoCache
    /\ rosterArg = JNull
    /\ ret = NoRet
    /\ localTeams = NoDb
    /\ calls = NoCalls

SpecNames == InitNames /\ [][NextTeams]_vars

\* A name field is present when it holds a non-empty string.
Present(field) == field.k = "str" /\ field.s # ""

ClaimedTeamName(user) ==
    LET metaName == IF user.metadata = "dict" THEN user.team_name ELSE JMissing
    IN  IF Present(metaName) THEN metaName
        ELSE IF Present(user.display_name) THEN user.display_name
        ELSE IF user.username.k # "missing" THEN user.username
        ELSE JStr("Unknown Team")

TeamsOf(user_id) == {i \in 1..Len(ret.val) : ret.val[i].user_id = user_id}

Tenth == FloatScale \div 10

PointValues ==
    {JMissing, JNull, JInt(100), JInt(50), JInt(0), JFloat(1005 * Tenth), JBool(TRUE),
     JStr("12"), JStr("1.5"), JStr("abc"), JList, JInf, JNan, JBig}

DecimalValues ==
    {JMissing, JNull, JInt(45), JInt(0), JFloat(45 * FloatScale), JStr("abc"), JDict, JInf, JBig}

CountValues ==
    {JMissing, JNull, JInt(7), JStr("12"), JStr("abc"), JFloat(27 * Tenth), JBool(TRUE),
     JInf, JBig}

InitPoints ==
    /\ scenario = "teams"
    /\ arg = [league_id |-> JStr("L1")]
    /\ leagueResp = League("dict", EastWest)
    /\ usersResp = ListOf(<<User(JStr("u1"), JStr("Ann"))>>)
    /\ \E f \in PointValues, d \in DecimalValues, w \in CountValues,
          l \in {JMissing, JInt(3)}, tp \in {JMissing, JFloat(999 * FloatScale)},
          st \in {"missing", "null", "dict"} :
          rostersResp = ListOf(<<[Roster(1, JStr("u1"), JInt(1))
                                    EXCEPT !.fpts = f, !.fpts_decimal = d, !.wins = w,
                                           !.losses = l, !.ties = l, !.total_points = tp,
                                           !.settings = st]>>)
    /\ playersResp = NoResp
    /\ cache = NoCache
    /\ rosterArg = JNull
    /\ ret = NoRet
    /\ localTeams = NoDb
    /\ calls = NoCalls

SpecPoints == InitPoints /\ [][NextTeams]_vars

\* The value of a settings field, as the claim reads it: the number it
\* holds (a numeric string counts by its number), 0 when the key is missing,
\* None or not a number.
SettingOf(roster, f) == IF roster.settings = "dict" THEN roster[f] ELSE JMissing

ClaimedFloat(v) ==
    CASE v.k \in {"int", "bool"} -> JFloat(v.n * FloatScale)
      [] v.k \in {"float", "inf", "nan"} -> v
      [] v.k = "str" /\ IsIntLiteral(v.s) -> JFloat(IntLiteral(v.s) * FloatScale)
      [] v.k = "str" /\ v.s = "1.5" -> JFloat(15 * Tenth)
      [] OTHER -> JFloat(0)

ClaimedCount(v) ==
    CASE v.k \in {"int", "bool"} -> JInt(v.n)
      [] v.k = "big" -> JBig
      [] v.k = "float" -> JInt(Trunc(v.n))
      [] v.k = "str" /\ IsIntLiteral(v.s) -> JInt(IntLiteral(v.s))
      [] OTHER -> JInt(0)

ClaimedTotal(fpts, fpts_decimal) ==
    IF fpts.k = "nan" \/ fpts_decimal.k = "nan" THEN JNan
    ELSE IF fpts.k = "inf" \/ fpts_decimal.k = "inf" THEN JInf
    ELSE JFloat(fpts.n + fpts_decimal.n \div 100)

\* C8: every returned team has total_points = fpts + fpts_decimal / 100 over
\* the safely converted settings values (0 when missing, None or not a
\* number), whatever pre-combined field the roster carries; wins, losses and
\* ties are integers, 0 by default.
C8_TotalPoints ==
    ret.op = "get_league_teams" /\ ret.exc = "none" =>
        /\ Len(ret.val) = 1
        /\ LET team == ret.val[1]
               roster == rostersResp.items[1]
               fpts == ClaimedFloat(SettingOf(roster, "fpts"))
               fpts_decimal == ClaimedFloat(SettingOf(roster, "fpts_decimal"))
           IN  /\ team.fpts = fpts
               /\ team.fpts_decimal = fpts_decimal
               /\ team.total_points = ClaimedTotal(fpts, fpts_decimal)
               /\ team.wins = ClaimedCount(SettingOf(roster, "wins"))
               /\ team.losses = ClaimedCount(SettingOf(roster, "losses"))
               /\ team.ties = ClaimedCount(SettingOf(roster, "ties"))
               /\ roster.settings = "dict" /\ roster.fpts = JInt(100)
                  /\ roster.fpts_decimal = JInt(45)
                  => team.total_points = JFloat(10045 * (FloatScale \div 100))
               /\ roster.settings = "dict" /\ roster.fpts = JInt(50)
                  /\ roster.fpts_decimal = JInt(0)
                  => team.total_points = JFloat(50 * FloatScale)

C8_Witness ==
    /\ ret.op = "get_league_teams"
    /\ ret.exc = "none"
    /\ rostersResp.items[1].fpts = JInt(100)
    /\ rostersResp.items[1].fpts_decimal = JInt(45)
    /\ rostersResp.items[1].total_points = JFloat(999 * FloatScale)
    /\ rostersResp.items[1].wins = JStr("abc")
    /\ ret.val[1].total_points = JFloat(10045 * (FloatScale \div 100))
    /\ ret.val[1].wins = JInt(0)

\* ------------------------------- matching and order (claims C6, C7)
SeqsUpTo(S, n) == UNION {[1..k -> S] : k \in 0..n}

MatchUsers ==
    {User(JStr("u1"), JStr("Ann")), User(JStr("u1"), JStr("Bob")),
     User(JStr("u2"), JStr("Ann")), User(JStr("u2"), JStr("Bob")),
     User(JStr(""), JStr("Cy")), User(JMissing, JStr("Cy"))}

\* [owner_id, settings.division] of a roster; its roster_id (and its wins)
\* is its position in the fetched list.
MatchRosters ==
    {<<JStr("u1"), JInt(1)>>, <<JStr("u1"), JInt(2)>>, <<JStr("u1"), JMissing>>,
     <<JStr("u2"), JInt(2)>>, <<JStr("u2"), JMissing>>,
     <<JNull, JInt(1)>>, <<JMissing, JInt(2)>>}

InitMatch ==
    /\ scenario = "teams"
    /\ arg = [league_id |-> JStr("L1")]
    /\ leagueResp \in {[k |-> "http"], League("dict", EastWest)}
    /\ \E us \in SeqsUpTo(MatchUsers, MaxUsers) : usersResp = ListOf(us)
    /\ \E rs \in SeqsUpTo(MatchRosters, MaxRosters) :
          rostersResp = ListOf([i \in 1..Len(rs) |-> Roster(i, rs[i][1], rs[i][2])])
    /\ playersResp = NoResp
    /\ cache = NoCache
    /\ rosterArg = JNull
    /\ ret = NoRet
    /\ localTeams = NoDb
    /\ calls = NoCalls

SpecMatch == InitMatch /\ [][NextTeams]_vars

Resolved(team) == team.division.k # "null"

\* team a may stand before team b: b's key is not below a's.
DivisionThenName(a, b) ==
    LET da == IF Resolved(a) THEN a.division.s ELSE ""
        db == IF Resolved(b) THEN b.division.s ELSE ""
    IN  \/ StrRank(da) < StrRank(db)
        \/ da = db /\ StrRank(a.team_name.s) <= StrRank(b.team_name.s)

NameOnly(a, b) == StrRank(a.team_name.s) <= StrRank(b.team_name.s)

\* C6: the returned list is in ascending order of (division or "", team
\* name) when some returned team has a resolved division, and in ascending
\* order of team name when none has.
C6_Ordered ==
    ret.op = "get_league_teams" /\ ret.exc = "none" =>
        \A i, j \in 1..Len(ret.val) :
            i < j =>
                IF \E k \in 1..Len(ret.val) : Resolved(ret.val[k])
                THEN DivisionThenName(ret.val[i], ret.val[j])
                ELSE NameOnly(ret.val[i], ret.val[j])

\* Two teams fetched in name order that the division order reverses, and a
\* team with no division in a league that has divisions.
C6_Witness ==
    /\ ret.op = "get_league_teams"
    /\ ret.exc = "none"
    /\ Len(ret.val) = 2
    /\ ret.val[1].team_name = JStr("Bob")
    /\ ret.val[1].division = JNull
    /\ ret.val[2].team_name = JStr("Ann")
    /\ ret.val[2].division = JStr("West")
    /\ usersResp.items[1].display_name = JStr("Ann")

HasOwner(roster) ==
    roster.owner_id.k \notin {"missing", "null"} /\ roster.owner_id # JStr("")

HasUserId(user) ==
    user.user_id.k \notin {"missing", "null"} /\ user.user_id # JStr("")

RostersOf(user) ==
    {r \in 1..Len(rostersResp.items) :
        HasOwner(rostersResp.items[r]) /\ rostersResp.items[r].owner_id = user.user_id}

MatchedUsers ==
    {u \in 1..Len(usersResp.items) :
        HasUserId(usersResp.items[u]) /\ RostersOf(usersResp.items[u]) # {}}

LastRosterOf(user) == CHOOSE r \in RostersOf(user) : \A q \in RostersOf(user) : q <= r

\* team is the team of user u: its identity and its roster's id and wins.
IsTeamOf(team, u) ==
    LET user == usersResp.items[u]
        roster == rostersResp.items[LastRosterOf(user)]
    IN  /\ team.user_id = user.user_id
        /\ team.display_name = user.display_name
        /\ team.roster_id = roster.roster_id
        /\ team.wins = roster.wins

\* C7: the returned teams are those of the users that have a non-empty user
\* id equal to some roster's owner id, one team per such user; a team's
\* roster_id and statistics are those of the last roster with that owner;
\* a roster without an owner id is in no team.
C7_Matching ==
    ret.op = "get_league_teams" /\ ret.exc = "none" =>
        /\ Len(ret.val) = Cardinality(MatchedUsers)
        /\ \A u \in MatchedUsers : \E i \in 1..Len(ret.val) : IsTeamOf(ret.val[i], u)
        /\ \A i \in 1..Len(ret.val) : \E u \in MatchedUsers : IsTeamOf(ret.val[i], u)
        /\ \A i \in 1..Len(ret.val), r \in 1..Len(rostersResp.items) :
              ~HasOwner(rostersResp.items[r])
                  => ret.val[i].roster_id # rostersResp.items[r].roster_id

\* Two rosters of one owner, the later one used; an ownerless roster and a
\* user without id left out.
C7_Witness ==
    /\ ret.op = "get_league_teams"
    /\ ret.exc = "none"
    /\ Len(rostersResp.items) = 2
    /\ rostersResp.items[1].owner_id = JStr("u1")
    /\ rostersResp.items[2].owner_id = JStr("u1")
    /\ Len(usersResp.items) = 2
    /\ ~HasUserId(usersResp.items[1])
    /\ Len(ret.val) = 1
    /\ ret.val[1].roster_id = JInt(2)

\* ------------------------------------------------------- get_players
\* The catalog is [k |-> "dict", entries]: entries maps player id strings to
\* entries [first_name, last_name, position, team, other]; other says that
\* the entry holds further keys (an entry with no key at all is falsy).
Catalog(entries) == [k |-> "dict", entries |-> entries]
EmptyCatalog == Catalog(<<>>)

\* len(v) is defined
HasLen(v) == v.k \in {"dict", "list", "str"}

\* (mutant) the cached value is not looked at
get_players_AlwaysFetch(cached, resp) ==
    IF resp.k \in {"timeout", "transport", "http", "parse", "other"}
    THEN [exc |-> "none", val |-> EmptyCatalog, cache |-> cached, fetched |-> TRUE,
          handled |-> "Exception"]
    ELSE IF ~HasLen(resp)
         THEN [exc |-> "none", val |-> EmptyCatalog, cache |-> resp, fetched |-> TRUE,
               handled |-> "Exception"]
    ELSE [exc |-> "none", val |-> resp, cache |-> resp, fetched |-> TRUE,
          handled |-> "none"]

\* get_players(): [exc, val, cache, fetched, handled]: the exception that
\* leaves the call (len() of a cached value, line 102, is outside the try),
\* the returned catalog, the cache entry after the call, whether the request
\* was issued and which except clause ran. The body is cached at line 113
\* before len() is taken of it at line 114.
get_players(cached, resp) ==
    IF cached.k \notin {"absent", "null"}
    THEN [exc |-> IF HasLen(cached) THEN "none" ELSE "TypeError",
          val |-> IF HasLen(cached) THEN cached ELSE EmptyCatalog,
          cache |-> cached, fetched |-> FALSE, handled |-> "none"]
    ELSE IF resp.k = "timeout"
         THEN [exc |-> "none", val |-> EmptyCatalog, cache |-> cached, fetched |-> TRUE,
               handled |-> "Timeout"]
    ELSE IF resp.k \in {"transport", "http", "parse"}
         THEN [exc |-> "none", val |-> EmptyCatalog, cache |-> cached, fetched |-> TRUE,
               handled |-> "RequestException"]
    ELSE IF resp.k = "other"
         THEN [exc |-> "none", val |-> EmptyCatalog, cache |-> cached, fetched |-> TRUE,
               handled |-> "Exception"]
    ELSE IF ~HasLen(resp)
         THEN [exc |-> "none", val |-> EmptyCatalog, cache |-> resp, fetched |-> TRUE,
               handled |-> "Exception"]
    ELSE [exc |-> "none", val |-> resp, cache |-> resp, fetched |-> TRUE,
          handled |-> "none"]

\* ------------------------------------------------ get_roster_players
\* str(v)
PyStr(v) ==
    CASE v.k = "str" -> v.s
      [] v.k = "int" -> ToString(v.n)
      [] v.k = "bool" -> IF v.n = 1 THEN "True" ELSE "False"
      [] v.k = "null" -> "None"

\* roster.get(key) or []
ListOrEmpty(field) == IF field.k = "list" THEN field.items ELSE <<>>

Items(seq) == {seq[i] : i \in 1..Len(seq)}

\* list(set(starters + reserve)): the distinct ids, in the order the set
\* happens to iterate them (it depends on the hash seed for strings).
SetOrders(S) ==
    {p \in [1..Cardinality(S) -> S] : \A x \in S : \E i \in DOMAIN p : p[i] = x}
\* (mutant) the reserve left out of the fallback list
WorkingLists_NoReserve(roster) ==
    LET player_ids == ListOrEmpty(roster.players)
        starters == ListOrEmpty(roster.starters)
    IN  IF Len(player_ids) = 0 /\ Len(starters) > 0
        THEN SetOrders(Items(starters))
        ELSE {player_ids}

\* lines 315-331: the lists player_ids may be
WorkingLists(roster) ==
    LET player_ids == ListOrEmpty(roster.players)
        starters == ListOrEmpty(roster.starters)
        reserve == ListOrEmpty(roster.reserve)
    IN  IF Len(player_ids) = 0 /\ Len(starters) > 0
        THEN SetOrders(Items(starters \o reserve))
        ELSE {player_ids}

EntryTruthy(e) ==
    e.other \/ \E f \in {"first_name", "last_name", "position", "team"} : e[f].k # "missing"

\* f"{value}"
Format(v) == PyStr(v)

\* f"{first} {last}".strip(), for parts that hold no white space themselves
JoinStrip(first, last) ==
    IF first = "" THEN last
    ELSE IF last = "" THEN first
    ELSE first \o " " \o last
\* (mutant) the flags compare the ids themselves, not their strings
RosterPlayer_RawFlags(player_id, players_data, starters, reserve) ==
    LET player_id_str == PyStr(player_id)
        found == /\ players_data.entries # <<>>
                 /\ player_id_str \in DOMAIN players_data.entries
                 /\ EntryTruthy(players_data.entries[player_id_str])
        info == players_data.entries[player_id_str]
        placeholder == JStr("Player " \o Format(player_id))
        name == JoinStrip(Format(GetOr(info.first_name, JStr(""))),
                          Format(GetOr(info.last_name, JStr(""))))
    IN  [player_id |-> player_id,
         name |-> IF found /\ name # "" THEN JStr(name) ELSE placeholder,
         position |-> IF found THEN GetOr(info.position, JStr("")) ELSE JStr(""),
         team |-> IF found THEN GetOr(info.team, JStr("")) ELSE JStr(""),
         is_starter |-> player_id \in Items(starters),
         is_reserve |-> player_id \in Items(reserve)]

\* lines 350-372: the RosterPlayer of one id
RosterPlayer(player_id, players_data, starters, reserve) ==
    LET player_id_str == PyStr(player_id)
        found == /\ players_data.entries # <<>>
                 /\ player_id_str \in DOMAIN players_data.entries
                 /\ EntryTruthy(players_data.entries[player_id_str])
        info == players_data.entries[player_id_str]
        placeholder == JStr("Player " \o Format(player_id))
        name == JoinStrip(Format(GetOr(info.first_name, JStr(""))),
                          Format(GetOr(info.last_name, JStr(""))))
    IN  [player_id |-> player_id,
         name |-> IF found /\ name # "" THEN JStr(name) ELSE placeholder,
         position |-> IF found THEN GetOr(info.position, JStr("")) ELSE JStr(""),
         team |-> IF found THEN GetOr(info.team, JStr("")) ELSE JStr(""),
         is_starter |-> player_id_str \in {PyStr(s) : s \in Items(starters)},
         is_reserve |-> player_id_str \in {PyStr(r) : r \in Items(reserve)}]

\* (mutant) the ids compared as they are only
MatchingRoster_NativeOnly(rosters, roster_id) ==
    LET S == {i \in 1..Len(rosters) : PyEq(Get(rosters[i].roster_id), roster_id)}
    IN  IF S = {} THEN 0 ELSE CHOOSE i \in S : \A j \in S : i <= j

\* lines 311-314: the first roster whose id matches, 0 when none does
MatchingRoster(rosters, roster_id) ==
    LET S == {i \in 1..Len(rosters) :
                \/ PyEq(Get(rosters[i].roster_id), roster_id)
                \/ PyStr(Get(rosters[i].roster_id)) = PyStr(roster_id)}
    IN  IF S = {} THEN 0 ELSE CHOOSE i \in S : \A j \in S : i <= j

\* (mutant) a failed catalog fetch ends the call with the empty result
get_roster_players_CatalogRequired(league_id, roster_id, rResp, cached, pResp, working) ==
    LET rosters == get_league_rosters(league_id, rResp)
        Nothing == [val |-> <<>>, working |-> <<>>, cache |-> cached]
    IN  IF ~Truthy(league_id) \/ roster_id.k = "null" THEN Nothing
        ELSE IF IterationError(rosters) # "none" THEN Nothing
        ELSE IF MatchingRoster(rosters.items, roster_id) = 0 THEN Nothing
        ELSE LET roster == rosters.items[MatchingRoster(rosters.items, roster_id)]
                 players == get_players(cached, pResp)
             IN  IF players.val.k # "dict" \/ pResp.k \in {"timeout", "transport", "http", "parse"}
                 THEN [val |-> <<>>, working |-> working, cache |-> players.cache]
                 ELSE [val |-> [i \in 1..Len(working) |->
                                  RosterPlayer(working[i], players.val,
                                               ListOrEmpty(roster.starters),
                                               ListOrEmpty(roster.reserve))],
                       working |-> working,
                       cache |-> players.cache]

\* get_roster_players(league_id, roster_id), for the order `working` of the
\* player ids: [val, working, cache]. Every exception is caught (line 379).
get_roster_players(league_id, roster_id, rResp, cached, pResp, working) ==
    LET rosters == get_league_rosters(league_id, rResp)
        Nothing == [val |-> <<>>, working |-> <<>>, cache |-> cached]
    IN  IF ~Truthy(league_id) \/ roster_id.k = "null" THEN Nothing
        ELSE IF IterationError(rosters) # "none" THEN Nothing
        ELSE IF MatchingRoster(rosters.items, roster_id) = 0 THEN Nothing
        ELSE LET roster == rosters.items[MatchingRoster(rosters.items, roster_id)]
                 players == get_players(cached, pResp)
             IN  IF players.val.k # "dict"
                 THEN [val |-> <<>>, working |-> working, cache |-> players.cache]
                 ELSE [val |-> [i \in 1..Len(working) |->
                                  RosterPlayer(working[i], players.val,
                                               ListOrEmpty(roster.starters),
                                               ListOrEmpty(roster.reserve))],
                       working |-> working,
                       cache |-> players.cache]

GetRosterPlayers ==
    /\ scenario = "roster"
    /\ LET rosters == get_league_rosters(arg.league_id, rostersResp)
           found == IF IterationError(rosters) # "none" THEN 0
                    ELSE MatchingRoster(rosters.items, rosterArg)
       IN  \E working \in IF found = 0 THEN {<<>>}
                          ELSE WorkingLists(rosters.items[found]) :
              LET r == get_roster_players(arg.league_id, rosterArg, rostersResp, cache,
                                          playersResp, working)
              IN  /\ ret' = [op |-> "get_roster_players", exc |-> "none", val |-> r.val,
                             working |-> r.working]
                  /\ cache' = r.cache
    /\ UNCHANGED <<scenario, arg, leagueResp, usersResp, rostersResp, playersResp, rosterArg,
                   localTeams, calls>>

NextRoster == GetRosterPlayers

\* --------------------------------------- roster players (claims C9, C10)
Entry(first, last, position, team, other) ==
    [first_name |-> first, last_name |-> last, position |-> position, team |-> team,
     other |-> other]

\* "11" is a full entry, "12" one whose name trims to nothing, "13" an entry
\* with no key at all; "p7" is not in the catalog.
CatalogA ==
    Catalog(("11" :> Entry(JStr("Tom"), JStr("Brady"), JStr("QB"), JStr("NE"), FALSE))
         @@ ("12" :> Entry(JStr(""), JMissing, JStr("K"), JMissing, TRUE))
         @@ ("13" :> Entry(JMissing, JMissing, JMissing, JMissing, FALSE)))

\* "11" has a last name only, "12" further keys only, "13" a null first name.
CatalogB ==
    Catalog(("11" :> Entry(JMissing, JStr("Rice"), JMissing, JStr("SF"), FALSE))
         @@ ("12" :> Entry(JMissing, JMissing, JMissing, JMissing, TRUE))
         @@ ("13" :> Entry(JNull, JStr("Moss"), JNull, JStr("MIN"), FALSE)))

PlayerIds == {JInt(11), JStr("11"), JStr("p7")}
StarterIds == {JInt(11), JInt(12), JStr("p7")}
ReserveIds == {JInt(12), JInt(13)}

IdLists(S, n) == {ListOf(s) : s \in SeqsUpTo(S, n)}

InitRoster ==
    /\ scenario = "roster"
    /\ arg = [league_id |-> JStr("L1")]
    /\ leagueResp = NoResp
    /\ usersResp = NoResp
    /\ \E p \in IdLists(PlayerIds, MaxPlayers) \cup {NoList, [k |-> "null", items |-> <<>>]},
          s \in IdLists(StarterIds, MaxPlayers) \cup {[k |-> "null", items |-> <<>>]},
          r \in IdLists(ReserveIds, MaxReserve) \cup {NoList} :
          rostersResp = ListOf(<<[Roster(2, JStr("u2"), JInt(1))
                                    EXCEPT !.players = ListOf(<<JInt(13)>>)],
                                 [Roster(1, JStr("u1"), JInt(1))
                                    EXCEPT !.players = p, !.starters = s, !.reserve = r]>>)
    /\ \/ cache = NoCache
          /\ playersResp \in {[k |-> "timeout"], [k |-> "null"], CatalogB, EmptyCatalog}
       \/ cache = CatalogA /\ playersResp = CatalogB
    /\ rosterArg \in {JInt(1), JStr("1"), JInt(3)}
    /\ ret = NoRet
    /\ localTeams = NoDb
    /\ calls = NoCalls

SpecRoster == InitRoster /\ [][NextRoster]_vars

\* The roster the call is about, and the catalog it read.
AskedRoster == rostersResp.items[2]
Called == ret.op = "get_roster_players" /\ rosterArg # JInt(3)

IdsOf(field) == IF field.k = "list" THEN {field.items[i] : i \in 1..Len(field.items)} ELSE {}

\* C9: with an empty or absent players list and a non-empty starters list the
\* working list holds exactly the ids of starters and reserve, each once;
\* otherwise it is the players list itself (empty when that is empty).
C9_WorkingList ==
    Called =>
        IF IdsOf(AskedRoster.players) = {} /\ IdsOf(AskedRoster.starters) # {}
        THEN /\ Items(ret.working) = IdsOf(AskedRoster.starters) \cup IdsOf(AskedRoster.reserve)
             /\ \A i, j \in 1..Len(ret.working) : ret.working[i] = ret.working[j] => i = j
        ELSE ret.working = IF AskedRoster.players.k = "list" THEN AskedRoster.players.items
                           ELSE <<>>

\* starters = [11, 12] and reserve = [13] with no players list give 11, 12 and
\* 13, once each.
C9_Witness ==
    /\ Called
    /\ AskedRoster.players.k = "missing"
    /\ AskedRoster.starters.items = <<JInt(11), JInt(12)>>
    /\ AskedRoster.reserve.items = <<JInt(13)>>
    /\ Len(ret.working) = 3
    /\ Items(ret.working) = {JInt(11), JInt(12), JInt(13)}

\* The catalog the call read: the cache entry once the call is over, or
\* nothing when the fetch failed.
CatalogRead == IF cache.k = "dict" THEN cache.entries ELSE <<>>

IdString(id) == IF id.k = "int" THEN ToString(id.n) ELSE id.s

NoName(entry) ==
    /\ entry.first_name \in {JMissing, JStr("")}
    /\ entry.last_name \in {JMissing, JStr("")}

\* C10: one RosterPlayer per entry of the working list, in its order; the
\* name is "Player {id}" when the catalog has no entry for the id or the
\* entry's trimmed "first last" is empty; position and team are "" when the
\* entry is missing; is_starter / is_reserve hold exactly when the id's
\* string equals the string of a starters / reserve entry.
C10_OnePlayerPerId ==
    Called =>
        /\ ret.exc = "none"
        /\ Len(ret.val) = Len(ret.working)
        /\ \A i \in 1..Len(ret.working) :
              LET player == ret.val[i]
                  key == IdString(ret.working[i])
              IN  /\ player.player_id = ret.working[i]
                  /\ key \notin DOMAIN CatalogRead
                        => /\ player.name = JStr("Player " \o key)
                           /\ player.position = JStr("")
                           /\ player.team = JStr("")
                  /\ key \in DOMAIN CatalogRead /\ NoName(CatalogRead[key])
                        => player.name = JStr("Player " \o key)
                  /\ cache = CatalogA /\ key = "11"
                        => /\ player.name = JStr("Tom Brady")
                           /\ player.position = JStr("QB")
                           /\ player.team = JStr("NE")
                  /\ player.is_starter
                        <=> \E s \in IdsOf(AskedRoster.starters) : IdString(s) = key
                  /\ player.is_reserve
                        <=> \E r \in IdsOf(AskedRoster.reserve) : IdString(r) = key

\* players = ["11", "p7"]: "11" is found under its string although the
\* starters hold the integer 11; "p7" is not in the catalog.
C10_Witness ==
    /\ Called
    /\ cache = CatalogA
    /\ AskedRoster.starters.items = <<JInt(11), JStr("p7")>>
    /\ Len(ret.val) = 2
    /\ ret.val[1].player_id = JStr("11")
    /\ ret.val[1].name = JStr("Tom Brady")
    /\ ret.val[1].is_starter
    /\ ret.val[2].player_id = JStr("p7")
    /\ ret.val[2].name = JStr("Player p7")
    /\ ret.val[2].position = JStr("")
    /\ ret.val[2].is_starter
    /\ ~ret.val[2].is_reserve

\* ------------------------------- roster lookup (claims C11, C12)
\* The roster ids the remote may send (an integer, its string, another
\* integer, no id at all) and the ids a caller may ask for.
RosterIdValues == {JInt(1), JStr("1"), JInt(2), JMissing}
RosterIdArgs == {JInt(1), JStr("1"), JInt(2), JInt(3)}

\* The roster at position i holds the single player 10 + i, so that the
\* working list tells which roster was used.
LookupRoster(i, roster_id) ==
    [Roster(i, JStr("u1"), JInt(1))
        EXCEPT !.roster_id = roster_id, !.players = ListOf(<<JInt(10 + i)>>)]

LookupRosters ==
    {ListOf([i \in 1..Len(ids) |-> LookupRoster(i, ids[i])]) :
        ids \in SeqsUpTo(RosterIdValues, MaxRosters)}

CatalogFailures == {[k |-> "timeout"]} \cup Failures

InitLookup ==
    /\ scenario = "roster"
    /\ arg = [league_id |-> JStr("L1")]
    /\ leagueResp = NoResp
    /\ usersResp = NoResp
    /\ rostersResp \in LookupRosters \cup Failures
                       \cup {[k |-> "null"], [k |-> "dict", entries |-> <<>>]}
    /\ cache = NoCache
    /\ playersResp \in CatalogFailures \cup {CatalogB}
    /\ rosterArg \in RosterIdArgs
    /\ ret = NoRet
    /\ localTeams = NoDb
    /\ calls = NoCalls

SpecLookup == InitLookup /\ [][NextRoster]_vars

\* The claim's match: equal as they are, or equal once both are strings.
IdText(id) ==
    CASE id.k = "int" -> ToString(id.n)
      [] id.k = "str" -> id.s
      [] id.k \in {"missing", "null"} -> "None"

SameId(a, b) == (a.k # "missing" /\ a = b) \/ IdText(a) = IdText(b)

MatchesOf(rosters) == {i \in 1..Len(rosters) : SameId(rosters[i].roster_id, rosterArg)}

\* C11: the roster used is the first fetched one whose roster_id equals the
\* requested id natively or as strings; with no match the result is the
\* empty sequence and nothing is raised.
C11_FirstMatch ==
    (ret.op = "get_roster_players" /\ rostersResp.k = "list") =>
        LET M == MatchesOf(rostersResp.items)
        IN  /\ ret.exc = "none"
            /\ IF M = {} THEN ret.val = <<>> /\ ret.working = <<>>
               ELSE \E i \in M :
                       /\ \A j \in M : i <= j
                       /\ ret.working = rostersResp.items[i].players.items
                       /\ Len(ret.val) = 1
                       /\ ret.val[1].player_id = JInt(10 + i)

\* Integer 1 is asked for: the first roster has id 2, the second has the
\* string "1" and is the one used.
C11_Witness ==
    /\ ret.op = "get_roster_players"
    /\ rosterArg = JInt(1)
    /\ rostersResp.k = "list"
    /\ Len(rostersResp.items) = 2
    /\ rostersResp.items[1].roster_id = JInt(2)
    /\ rostersResp.items[2].roster_id = JStr("1")
    /\ Len(ret.val) = 1
    /\ ret.val[1].player_id = JInt(12)

RosterFetchFailed == rostersResp.k \in {"transport", "http", "parse", "null", "dict"}
CatalogFetchFailed == playersResp.k \in {"timeout", "transport", "http", "parse"}

\* C12 as stated: a failure fetching the rosters or the catalog gives an
\* empty result and no exception.
C12_EmptyOnAnyFailure ==
    (ret.op = "get_roster_players" /\ (RosterFetchFailed \/ CatalogFetchFailed)) =>
        ret.exc = "none" /\ ret.val = <<>>

\* C12 (amended): no failure of either fetch is raised; a failed roster
\* fetch gives the empty result; a failed catalog fetch gives an empty
\* catalog, so that every id of the working list is still returned, under
\* its placeholder name and with empty position and team.
C12_FailuresContained ==
    ret.op = "get_roster_players" =>
        /\ ret.exc = "none"
        /\ RosterFetchFailed => ret.val = <<>>
        /\ (CatalogFetchFailed /\ ~RosterFetchFailed) =>
              /\ cache = NoCache
              /\ Len(ret.val) = Len(ret.working)
              /\ (MatchesOf(rostersResp.items) # {}) => Len(ret.val) = 1
              /\ \A i \in 1..Len(ret.val) :
                    /\ ret.val[i].player_id = ret.working[i]
                    /\ ret.val[i].name = JStr("Player " \o IdText(ret.working[i]))
                    /\ ret.val[i].position = JStr("")
                    /\ ret.val[i].team = JStr("")

\* The catalog request times out and the roster is found: its player is
\* returned as "Player 11".
C12_Witness ==
    /\ ret.op = "get_roster_players"
    /\ playersResp.k = "timeout"
    /\ rostersResp.k = "list"
    /\ Len(ret.val) = 1
    /\ ret.val[1].name = JStr("Player 11")

\* ------------------------------------------------ views.py: team_list
\* The element of a one-element set; {F(v) : v \in {e}} computes a local
\* variable v = e once and then the rest of the function body F(v).
The(S) == CHOOSE result \in S : TRUE

\* A row of Teams with the aggregates annotated at lines 63-69: Sum and Min
\* over no ranking are None, the counts are 0.
LocalTeam(team_id, user_id, seasons) ==
    [team_id |-> JInt(team_id), user_id |-> JInt(user_id), team_name |-> JStr("local"),
     total_wins |-> IF seasons = 0 THEN JNull ELSE JInt(10 + team_id),
     total_losses |-> IF seasons = 0 THEN JNull ELSE JInt(4),
     championships |-> JInt(IF seasons = 0 THEN 0 ELSE 1),
     best_rank |-> IF seasons = 0 THEN JNull ELSE JInt(1),
     seasons_played |-> JInt(seasons)]

\* lines 72-83: both mappings keep, for a user_id, the last row that has it
\* (0 when no row has it)
LastRowFor(rows, user_id_int) ==
    LET S == {i \in 1..Len(rows) : PyEq(rows[i].user_id, user_id_int)}
    IN  IF S = {} THEN 0 ELSE CHOOSE i \in S : \A j \in S : j <= i

\* lines 90-129: the combined record of one sleeper team
CombineTeam(sleeper_team, rows) ==
    LET user_id == sleeper_team.user_id
        conv == IF Truthy(user_id) THEN PyInt(user_id) ELSE Ok(JNull)
        user_id_int == IF conv.exc = "none" THEN conv.val ELSE JNull
        found == IF Truthy(user_id_int) THEN LastRowFor(rows, user_id_int) ELSE 0
        db_team == rows[found]
        Stat(value) == IF found = 0 THEN JInt(0) ELSE PyOr(value, JInt(0))
    IN  IF conv.exc \notin {"none", "ValueError", "TypeError"} THEN Raise(conv.exc)
        ELSE Ok([team_name |-> sleeper_team.team_name,
                 display_name |-> sleeper_team.display_name,
                 username |-> sleeper_team.username,
                 avatar_url |-> sleeper_team.avatar_url,
                 roster_id |-> sleeper_team.roster_id,
                 user_id |-> user_id,
                 team_id |-> IF found # 0 THEN db_team.team_id ELSE sleeper_team.roster_id,
                 division |-> sleeper_team.division,
                 current_wins |-> sleeper_team.wins,
                 current_losses |-> sleeper_team.losses,
                 current_ties |-> sleeper_team.ties,
                 current_points |-> sleeper_team.total_points,
                 total_wins |-> Stat(db_team.total_wins),
                 total_losses |-> Stat(db_team.total_losses),
                 championships |-> Stat(db_team.championships),
                 best_rank |-> Stat(db_team.best_rank),
                 seasons_played |-> Stat(db_team.seasons_played),
                 has_db_record |-> found # 0])

\* lines 89-129: the loop over the sleeper teams
CombineTeams(sleeper_teams, rows) ==
    LET each == [i \in 1..Len(sleeper_teams) |-> CombineTeam(sleeper_teams[i], rows)]
    IN  IF \E i \in 1..Len(each) : each[i].exc # "none"
        THEN Raise(each[CHOOSE i \in 1..Len(each) :
                           /\ each[i].exc # "none"
                           /\ \A j \in 1..(i - 1) : each[j].exc = "none"].exc)
        ELSE Ok([i \in 1..Len(each) |-> each[i].val])

\* line 135-142: the bucket a team goes to when divisions exist
BucketKey(team) == IF Truthy(team.division) THEN team.division ELSE JStr("Unassigned")

\* sorted(..., key=lambda x: x[0]) over distinct keys
SortedKeys(keys) ==
    CHOOSE order \in SetOrders(keys) :
        \A i, j \in 1..Len(order) : i < j => PyLt(order[i], order[j])

\* (mutant) teams without a division are left out of the grouping
GroupByDivision_NoUnassigned(teams_with_stats) ==
    LET Has(team) == Truthy(team.division)
        divisions == {teams_with_stats[i].division : i \in 1..Len(teams_with_stats)}
        keys == {d \in divisions : Truthy(d)}
        InBucket(key) == LET Test(team) == Has(team) /\ team.division = key
                         IN  SelectSeq(teams_with_stats, Test)
    IN  IF keys = {}
        THEN Ok(<<[key |-> JStr("All Teams"), teams |-> teams_with_stats]>>)
        ELSE IF \E a, b \in keys : a # b /\ ~Comparable(a, b) THEN Raise("TypeError")
        ELSE Ok([i \in 1..Cardinality(keys) |->
                    [key |-> SortedKeys(keys)[i], teams |-> InBucket(SortedKeys(keys)[i])]])

\* lines 131-150: teams_by_division, as the sequence of its (key, teams)
\* items in the mapping's order
GroupByDivision(teams_with_stats) ==
    LET divisions == {d \in {teams_with_stats[i].division : i \in 1..Len(teams_with_stats)} :
                        Truthy(d)}
        keys == {BucketKey(teams_with_stats[i]) : i \in 1..Len(teams_with_stats)}
        InBucket(key) == LET Test(team) == BucketKey(team) = key
                         IN  SelectSeq(teams_with_stats, Test)
    IN  IF divisions = {}
        THEN Ok(<<[key |-> JStr("All Teams"), teams |-> teams_with_stats]>>)
        ELSE IF \E a, b \in keys : a # b /\ ~Comparable(a, b) THEN Raise("TypeError")
        ELSE Ok([i \in 1..Cardinality(keys) |->
                    [key |-> SortedKeys(keys)[i], teams |-> InBucket(SortedKeys(keys)[i])]])

\* team_list(request), with settings.SLEEPER_LEAGUE_ID = league_id: the
\* exception that leaves the view, or the context it renders; sleeper_teams
\* is the view's local list of the same name.
team_list(league_id, lResp, uResp, rResp, rows) ==
    LET Fail(e) == [exc |-> e, sleeper_teams |-> <<>>, teams_with_stats |-> <<>>,
                    teams_by_division |-> <<>>, has_divisions |-> FALSE]
        Context(fetched, combined, grouped) ==
            IF grouped.exc # "none" THEN Fail(grouped.exc)
            ELSE [exc |-> "none",
                  sleeper_teams |-> fetched.val,
                  teams_with_stats |-> combined.val,
                  teams_by_division |-> grouped.val,
                  has_divisions |-> \E i \in 1..Len(combined.val) :
                                       Truthy(combined.val[i].division)]
        Grouped(fetched, combined) ==
            IF combined.exc # "none" THEN Fail(combined.exc)
            ELSE The({Context(fetched, combined, grouped) :
                         grouped \in {GroupByDivision(combined.val)}})
        Combined(fetched) ==
            IF fetched.exc # "none" THEN Fail(fetched.exc)
            ELSE The({Grouped(fetched, combined) :
                         combined \in {CombineTeams(fetched.val, rows)}})
    IN  The({Combined(fetched) :
                fetched \in {IF Truthy(league_id)
                             THEN get_league_teams(league_id, lResp, uResp, rResp)
                             ELSE [exc |-> "none", val |-> <<>>]}})

TeamList ==
    /\ scenario \in {"list", "detail"}
    /\ \E r \in {team_list(arg.league_id, leagueResp, usersResp, rostersResp, localTeams)} :
           ret' = [op |-> "team_list", exc |-> r.exc, val |-> r.teams_with_stats,
                   sleeper_teams |-> r.sleeper_teams,
                   teams_by_division |-> r.teams_by_division,
                   has_divisions |-> r.has_divisions]
    /\ UNCHANGED <<scenario, arg, leagueResp, usersResp, rostersResp, playersResp, cache,
                   rosterArg, localTeams, calls>>

NextList == TeamList

\* ------------------------------------ team_list (claims C13, C14)
\* The league's members: [user_id, display_name]. "u1" is not a number,
\* "0" is the number zero.
ListMembers == {<<"7", "Bob">>, <<"8", "Ann">>, <<"0", "Cy">>, <<"u1", "Ann">>}

\* [user_id, seasons] of a local row; its team_id is 4 + its position.
ListRows == {<<0, 2>>, <<7, 2>>, <<7, 0>>, <<9, 2>>}

WestEast == DV("list", 0, <<JStr("West"), JStr("East")>>)

InitList ==
    /\ scenario = "list"
    /\ arg = [league_id |-> JStr("L1")]
    /\ leagueResp \in {[k |-> "http"], League("dict", WestEast)}
    /\ \E ms \in SeqsUpTo(ListMembers \X {JInt(1), JInt(2), JMissing}, MaxTeams) :
          /\ usersResp = ListOf([i \in 1..Len(ms) |->
                                   User(JStr(ms[i][1][1]), JStr(ms[i][1][2]))])
          /\ rostersResp = ListOf([i \in 1..Len(ms) |->
                                     Roster(i, JStr(ms[i][1][1]), ms[i][2])])
    /\ playersResp = NoResp
    /\ cache = NoCache
    /\ rosterArg = JNull
    /\ ret = NoRet
    /\ \E rs \in SeqsUpTo(ListRows, MaxLocal) :
          localTeams = [i \in 1..Len(rs) |-> LocalTeam(4 + i, rs[i][1], rs[i][2])]
    /\ calls = NoCalls

SpecList == InitList /\ [][NextList]_vars

Listed == ret.op = "team_list" /\ ret.exc = "none"

HasDivision(team) == team.division.k = "str" /\ team.division.s # ""

\* The teams of `teams` that satisfy Test, as a bag of records.
CountIn(teams, team) == Cardinality({i \in 1..Len(teams) : teams[i] = team})

BucketsNamed(name) ==
    {i \in 1..Len(ret.teams_by_division) : ret.teams_by_division[i].key = JStr(name)}

\* C13: with no division anywhere there is the single bucket "All Teams"
\* holding all teams and has_divisions is false; otherwise has_divisions is
\* true, each team is in the bucket of its division, or in "Unassigned" when
\* it has none, and the buckets are in the alphabetical order of their keys.
C13_Grouping ==
    Listed =>
        LET teams == ret.val
            buckets == ret.teams_by_division
        IN  IF \A i \in 1..Len(teams) : ~HasDivision(teams[i])
            THEN /\ buckets = <<[key |-> JStr("All Teams"), teams |-> teams]>>
                 /\ ~ret.has_divisions
            ELSE /\ ret.has_divisions
                 /\ \A i \in 1..Len(teams) :
                       LET name == IF HasDivision(teams[i]) THEN teams[i].division.s
                                   ELSE "Unassigned"
                       IN  /\ Cardinality(BucketsNamed(name)) = 1
                           /\ \A b \in BucketsNamed(name) :
                                 CountIn(buckets[b].teams, teams[i]) = CountIn(teams, teams[i])
                           /\ \A b \in 1..Len(buckets) :
                                 b \notin BucketsNamed(name)
                                    => CountIn(buckets[b].teams, teams[i]) = 0
                 /\ \A b \in 1..Len(buckets) :
                       \A i \in 1..Len(buckets[b].teams) : CountIn(teams, buckets[b].teams[i]) > 0
                 /\ \A a, b \in 1..Len(buckets) :
                       a < b => StrRank(buckets[a].key.s) < StrRank(buckets[b].key.s)

\* One team in West, one without division: the buckets are "Unassigned",
\* then "West".
C13_Witness ==
    /\ Listed
    /\ ret.has_divisions
    /\ Len(ret.val) = 2
    /\ Len(ret.teams_by_division) = 2
    /\ ret.teams_by_division[1].key = JStr("Unassigned")
    /\ ret.teams_by_division[2].key = JStr("West")
    /\ Len(ret.teams_by_division[1].teams) = 1

\* The claim's join key: the user id read as an integer, -1 when it is not
\* one.
JoinKey(user_id) ==
    IF user_id.k = "int" THEN user_id.n
    ELSE IF user_id.k = "str" /\ \E n \in 0..ParseMax : ToString(n) = user_id.s
         THEN CHOOSE n \in 0..ParseMax : ToString(n) = user_id.s
    ELSE -1

RowsOf(key) == {i \in 1..Len(localTeams) : localTeams[i].user_id = JInt(key)}

OrZero(value) == IF value.k = "null" THEN JInt(0) ELSE value

Joined(combined, sleeper_team) ==
    LET key == JoinKey(sleeper_team.user_id)
    IN  IF key = -1 \/ RowsOf(key) = {}
        THEN /\ ~combined.has_db_record
             /\ combined.total_wins = JInt(0)
             /\ combined.total_losses = JInt(0)
             /\ combined.championships = JInt(0)
             /\ combined.best_rank = JInt(0)
             /\ combined.seasons_played = JInt(0)
             /\ combined.team_id = sleeper_team.roster_id
        ELSE /\ combined.has_db_record
             /\ \E r \in RowsOf(key) :
                   /\ combined.team_id = localTeams[r].team_id
                   /\ combined.total_wins = OrZero(localTeams[r].total_wins)
                   /\ combined.total_losses = OrZero(localTeams[r].total_losses)
                   /\ combined.championships = localTeams[r].championships
                   /\ combined.best_rank = OrZero(localTeams[r].best_rank)
                   /\ combined.seasons_played = localTeams[r].seasons_played

\* C14: each NormalizedTeam gives one CombinedTeam; without a local team
\* under its user id read as an integer it has no record, zero aggregates
\* and the roster id as team_id, otherwise it has the local team's record,
\* aggregates and id.
C14_Join ==
    Listed =>
        /\ Len(ret.val) = Len(ret.sleeper_teams)
        /\ \A i \in 1..Len(ret.val) : Joined(ret.val[i], ret.sleeper_teams[i])

\* ---------------------------------------------- views.py: team_detail
\* get_team_by_roster_id(league_id, roster_id): [exc, found, team]
get_team_by_roster_id(league_id, roster_id, lResp, uResp, rResp) ==
    LET NotFound == [exc |-> "none", found |-> FALSE, team |-> JNull]
        Search(teams) ==
            LET S == {i \in 1..Len(teams.val) :
                        \/ PyEq(teams.val[i].roster_id, roster_id)
                        \/ PyStr(teams.val[i].roster_id) = PyStr(roster_id)}
            IN  IF teams.exc # "none"
                THEN [exc |-> teams.exc, found |-> FALSE, team |-> JNull]
                ELSE IF S = {} THEN NotFound
                ELSE [exc |-> "none", found |-> TRUE,
                      team |-> teams.val[CHOOSE i \in S : \A j \in S : i <= j]]
    IN  IF ~Truthy(league_id) \/ roster_id.k = "null" THEN NotFound
        ELSE The({Search(teams) :
                     teams \in {get_league_teams(league_id, lResp, uResp, rResp)}})

\* Teams.objects.get(pk=team_id): the index of the row, 0 for DoesNotExist
RowByPk(rows, team_id) ==
    LET S == {i \in 1..Len(rows) : PyEq(rows[i].team_id, team_id)}
    IN  IF S = {} THEN 0 ELSE CHOOSE i \in S : TRUE

\* team_detail(request, team_id), with settings.SLEEPER_LEAGUE_ID =
\* league_id and `working` the order of the roster's player ids: the
\* exception that leaves the view or the context it renders, and the cache
\* entry afterwards.
team_detail(league_id, team_id, lResp, uResp, rResp, cached, pResp, rows, working) ==
    LET roster_id == PyInt(team_id)
        row == RowByPk(rows, team_id)
        IsStarter(p) == p.is_starter
        IsBench(p) == ~p.is_starter /\ ~p.is_reserve
        IsReserve(p) == p.is_reserve
        Sleeper(sleeper_team, players) ==
            [exc |-> "none", view |-> "sleeper", sleeper_team |-> sleeper_team,
             db_team |-> JNull, team_name |-> sleeper_team.team_name,
             starters |-> SelectSeq(players.val, IsStarter),
             bench |-> SelectSeq(players.val, IsBench),
             reserve |-> SelectSeq(players.val, IsReserve), cache |-> players.cache]
        Render(lookup) ==
            IF lookup.exc = "none" /\ lookup.found
            THEN The({Sleeper(lookup.team, players) :
                         players \in {get_roster_players(league_id, roster_id.val, rResp,
                                                         cached, pResp, working)}})
            ELSE IF row # 0
            THEN [exc |-> "none", view |-> "db", sleeper_team |-> JNull,
                  db_team |-> rows[row], team_name |-> rows[row].team_name,
                  starters |-> <<>>, bench |-> <<>>, reserve |-> <<>>, cache |-> cached]
            ELSE [exc |-> "Http404", view |-> "none", sleeper_team |-> JNull,
                  db_team |-> JNull, team_name |-> JNull,
                  starters |-> <<>>, bench |-> <<>>, reserve |-> <<>>, cache |-> cached]
    IN  The({Render(lookup) :
                lookup \in {IF Truthy(league_id) /\ roster_id.exc = "none"
                            THEN get_team_by_roster_id(league_id, roster_id.val,
                                                       lResp, uResp, rResp)
                            ELSE [exc |-> roster_id.exc, found |-> FALSE, team |-> JNull]}})

\* The orders in which get_roster_players may walk the roster's players.
DetailWorkingLists(league_id, roster_id, rResp) ==
    LET rosters == get_league_rosters(league_id, rResp)
        found == IF IterationError(rosters) # "none" THEN 0
                 ELSE MatchingRoster(rosters.items, roster_id)
    IN  IF found = 0 THEN {<<>>} ELSE WorkingLists(rosters.items[found])

\* The view, for team_id; `linked` is the list entry whose link was followed.
Detail(team_id, linked) ==
    \E working \in DetailWorkingLists(arg.league_id, team_id, rostersResp) :
        \E r \in {team_detail(arg.league_id, team_id, leagueResp, usersResp, rostersResp,
                                cache, playersResp, localTeams, working)} :
            /\ ret' = [op |-> "team_detail", exc |-> r.exc, val |-> r.view,
                       team_id |-> team_id, linked |-> linked,
                       sleeper_team |-> r.sleeper_team, db_team |-> r.db_team,
                       team_name |-> r.team_name, starters |-> r.starters,
                       bench |-> r.bench, reserve |-> r.reserve]
            /\ cache' = r.cache

\* GET teams/<int:team_id>/
TeamDetail ==
    /\ scenario = "detail"
    /\ \E n \in 0..MaxTeamId : Detail(JInt(n), <<>>)
    /\ UNCHANGED <<scenario, arg, leagueResp, usersResp, rostersResp, playersResp,
                   rosterArg, localTeams, calls>>

\* The link of an entry of the team list (its team_id) is followed.
FollowLink ==
    /\ scenario = "detail"
    /\ ret.op = "team_list"
    /\ ret.exc = "none"
    /\ \E i \in 1..Len(ret.val) :
          /\ ret.val[i].team_id.k = "int"
          /\ Detail(ret.val[i].team_id, <<ret.val[i]>>)
    /\ UNCHANGED <<scenario, arg, leagueResp, usersResp, rostersResp, playersResp,
                   rosterArg, localTeams, calls>>

NextDetail ==
    \/ TeamList
    \/ TeamDetail
    \/ FollowLink

\* ---------------------------------- team_detail (claims C15, C19)
\* [user_id, display_name, username] of a member; the third has no name.
DetailMembers ==
    {<<"7", JStr("Bob"), JStr("bob")>>, <<"8", JStr("Ann"), JStr("ann")>>,
     <<"9", JNull, JNull>>}

\* Rows [team_id, user_id] with distinct primary keys.
DetailRows ==
    {rs \in SeqsUpTo((1..3) \X {7, 9}, MaxLocal) :
        \A i, j \in 1..Len(rs) : i # j => rs[i][1] # rs[j][1]}

InitDetail ==
    /\ scenario = "detail"
    /\ arg \in {[league_id |-> JStr("L1")], [league_id |-> JStr("")]}
    /\ leagueResp = [k |-> "http"]
    /\ \E ms \in SeqsUpTo(DetailMembers, MaxTeams) :
          /\ usersResp = ListOf([i \in 1..Len(ms) |->
                                   [User(JStr(ms[i][1]), ms[i][2]) EXCEPT !.username = ms[i][3]]])
          /\ rostersResp \in
                {ListOf([i \in 1..Len(ms) |->
                           [Roster(i, JStr(ms[i][1]), JMissing)
                              EXCEPT !.players = ListOf(<<JInt(11), JInt(12)>>),
                                     !.starters = ListOf(<<JInt(11)>>)]]),
                 [k |-> "null"]}
    /\ playersResp = [k |-> "timeout"]
    /\ cache = NoCache
    /\ rosterArg = JNull
    /\ ret = NoRet
    /\ \E rs \in DetailRows :
          localTeams = [i \in 1..Len(rs) |-> LocalTeam(rs[i][1], rs[i][2], 2)]
    /\ calls = NoCalls

SpecDetail == InitDetail /\ [][NextDetail]_vars

Detailed == ret.op = "team_detail"

\* The members the external league has as teams: those with a roster (the
\* last one of theirs counts), when a league is configured and its rosters
\* were fetched as a list.
ExternalMembers ==
    IF arg.league_id = JStr("") \/ rostersResp.k # "list" \/ usersResp.k # "list" THEN {}
    ELSE MatchedUsers

ExternalRosterId(u) == rostersResp.items[LastRosterOf(usersResp.items[u])].roster_id

LocalByPk(team_id) == {i \in 1..Len(localTeams) : localTeams[i].team_id = team_id}

\* C15: the Sleeper view when the external league has a team with roster id
\* team_id; else the database view when a local team has that primary key;
\* Http404 exactly when neither exists; nothing else is raised.
C15_NotFoundOnly ==
    Detailed =>
        LET external == {u \in ExternalMembers : ExternalRosterId(u) = ret.team_id}
            local == LocalByPk(ret.team_id)
        IN  /\ ret.exc \in {"none", "Http404"}
            /\ ret.exc = "Http404" <=> (external = {} /\ local = {})
            /\ external # {} =>
                  /\ ret.val = "sleeper"
                  /\ \E u \in external : ret.sleeper_team.user_id = usersResp.items[u].user_id
            /\ (external = {} /\ local # {}) =>
                  /\ ret.val = "db"
                  /\ \E r \in local : ret.db_team = localTeams[r]

\* C19: following the link of an entry of the team list renders that same
\* team: the Sleeper view of the same member, or the database view of the
\* local team the entry was joined to.
C19_SameTeam ==
    (Detailed /\ ret.linked # <<>>) =>
        LET entry == ret.linked[1]
        IN  /\ ret.exc = "none"
            /\ \/ /\ ret.val = "sleeper"
                  /\ ret.sleeper_team.user_id = entry.user_id
                  /\ ret.sleeper_team.roster_id = entry.roster_id
               \/ /\ ret.val = "db"
                  /\ entry.has_db_record
                  /\ ret.db_team.team_id = entry.team_id
                  /\ ret.db_team.user_id = JInt(JoinKey(entry.user_id))

\* ------------------------------------------- team names (claim C20)
\* C20: whatever the shape of the user record, get_league_teams returns (its
\* sort raises nothing) and every returned team_name is a non-empty string.
C20_NameIsString ==
    ret.op = "get_league_teams" =>
        /\ ret.exc = "none"
        /\ \A i \in 1..Len(ret.val) :
              ret.val[i].team_name.k = "str" /\ ret.val[i].team_name.s # ""

\* ----------------------------------- get_players, call after call
\* What GET /players/nfl may answer: a failure of the request, or a body.
\* The last two bodies are not JSON objects.
PlayerOutcomes ==
    CatalogFailures \cup {[k |-> "other"]}
    \cup {CatalogA, CatalogB, EmptyCatalog, [k |-> "null"], JInt(5)}

\* One whole call of get_players(). ret.n counts the calls; ret.stored is
\* history: the payload cached by the last call that returned what it
\* fetched, until the entry expires.
GetPlayers ==
    /\ scenario = "players"
    /\ ret.n < MaxCalls
    /\ \E resp \in PlayerOutcomes :
          LET r == get_players(cache, resp)
          IN  /\ playersResp' = IF r.fetched THEN resp ELSE NoResp
              /\ cache' = r.cache
              /\ ret' = [op |-> "get_players", exc |-> r.exc, val |-> r.val,
                         fetched |-> r.fetched, handled |-> r.handled, n |-> ret.n + 1,
                         stored |-> IF r.fetched /\ r.handled = "none" THEN r.val
                                    ELSE ret.stored]
    /\ UNCHANGED <<scenario, arg, leagueResp, usersResp, rostersResp, rosterArg, localTeams,
                   calls>>

\* The cache entry reaches its TTL (SLEEPER_PLAYERS_CACHE_TTL).
Expire ==
    /\ scenario \in {"players", "race"}
    /\ cache # NoCache
    /\ cache' = NoCache
    /\ ret' = [ret EXCEPT !.stored = NoCache]
    /\ UNCHANGED <<scenario, arg, leagueResp, usersResp, rostersResp, playersResp, rosterArg,
                   localTeams, calls>>

NextPlayers ==
    \/ GetPlayers
    \/ Expire

InitPlayers ==
    /\ scenario = "players"
    /\ arg = [league_id |-> JStr("L1")]
    /\ leagueResp = NoResp
    /\ usersResp = NoResp
    /\ rostersResp = NoResp
    /\ playersResp = NoResp
    /\ cache = NoCache
    /\ rosterArg = JNull
    /\ ret = [op |-> "none", exc |-> "none", val |-> JNull, fetched |-> FALSE,
              handled |-> "none", n |-> 0, stored |-> NoCache]
    /\ localTeams = NoDb
    /\ calls = NoCalls

SpecPlayers == InitPlayers /\ [][NextPlayers]_vars

\* A step that is a call of get_players.
CallStep == ret'.op = "get_players" /\ ret'.n = ret.n + 1

\* C16: only a call that finds nothing under the key issues the fetch; a
\* call whose fetch succeeds caches what it returns, and every later call
\* before the entry expires returns that same catalog without fetching.
C16_FetchOnce ==
    [][CallStep =>
          /\ ret'.fetched => cache \in {NoCache, [k |-> "null"]}
          /\ (ret'.fetched /\ ret'.handled = "none") =>
                /\ ret'.val = playersResp'
                /\ cache' = playersResp'
          /\ ret.stored # NoCache =>
                /\ ~ret'.fetched
                /\ ret'.exc = "none"
                /\ ret'.val = ret.stored
                /\ cache' = cache]_vars

\* The last call returns, without a request, the catalog an earlier one
\* fetched.
C16_Witness ==
    /\ ret.op = "get_players"
    /\ ret.n = MaxCalls
    /\ ~ret.fetched
    /\ ret.val = CatalogB
    /\ ret.stored = CatalogB
    /\ cache = CatalogB

\* The call's fetch failed: one of the except clauses ran.
FetchFailedIn(r) == r.fetched /\ r.handled # "none"

\* C17: a call whose fetch fails returns the empty mapping and leaves the
\* cache as it was; only a successful fetch changes the cache, to its
\* payload.
C17_ErrorsNotCached ==
    [][CallStep =>
          /\ FetchFailedIn(ret') => (ret'.val = EmptyCatalog /\ cache' = cache)
          /\ cache' # cache =>
                (ret'.fetched /\ ret'.handled = "none" /\ cache' = ret'.val)]_vars

\* ------------------------------------- get_players, concurrent calls
\* A caller's call: pc is "start" before line 100, "fetch" after a cache
\* miss, "set" once the body is parsed (line 110), "done" once it returned;
\* body is the parsed body, hit says that the value came from the cache and
\* handled names the except clause that ran.
Callers == 1..MaxCallers

NewCall == [pc |-> "start", body |-> NoResp, exc |-> "none", val |-> JNull, hit |-> FALSE,
            handled |-> "none"]

Return(call, exc, val, hit, handled) ==
    [call EXCEPT !.pc = "done", !.exc = exc, !.val = val, !.hit = hit, !.handled = handled]

\* lines 100-103: cache.get and the return of a cached value
CacheGet(p) ==
    /\ scenario = "race"
    /\ calls[p].pc = "start"
    /\ calls' = [calls EXCEPT ![p] =
                    IF cache.k \in {"absent", "null"} THEN [@ EXCEPT !.pc = "fetch"]
                    ELSE IF HasLen(cache) THEN Return(@, "none", cache, TRUE, "none")
                    ELSE Return(@, "TypeError", JNull, TRUE, "none")]
    /\ UNCHANGED <<scenario, arg, leagueResp, usersResp, rostersResp, playersResp, cache,
                   rosterArg, ret, localTeams>>

\* lines 108-110 and the except clauses: the request and its parsing
Fetch(p) ==
    /\ scenario = "race"
    /\ calls[p].pc = "fetch"
    /\ \E resp \in PlayerOutcomes :
          calls' = [calls EXCEPT ![p] =
                       IF resp.k = "timeout" THEN Return(@, "none", EmptyCatalog, FALSE, "Timeout")
                       ELSE IF resp.k \in {"transport", "http", "parse"}
                            THEN Return(@, "none", EmptyCatalog, FALSE, "RequestException")
                       ELSE IF resp.k = "other"
                            THEN Return(@, "none", EmptyCatalog, FALSE, "Exception")
                       ELSE [@ EXCEPT !.pc = "set", !.body = resp]]
    /\ UNCHANGED <<scenario, arg, leagueResp, usersResp, rostersResp, playersResp, cache,
                   rosterArg, ret, localTeams>>

\* lines 113-116: cache.set, then len() of the body and the return.
\* ret.stored is history: the payload of the last set by a call that
\* returned it.
CacheSet(p) ==
    /\ scenario = "race"
    /\ calls[p].pc = "set"
    /\ cache' = calls[p].body
    /\ calls' = [calls EXCEPT ![p] =
                    IF HasLen(@.body) THEN Return(@, "none", @.body, FALSE, "none")
                    ELSE Return(@, "none", EmptyCatalog, FALSE, "Exception")]
    /\ ret' = [ret EXCEPT !.stored = IF HasLen(calls[p].body) THEN calls[p].body ELSE @]
    /\ UNCHANGED <<scenario, arg, leagueResp, usersResp, rostersResp, playersResp, rosterArg,
                   localTeams>>

NextRace ==
    \/ \E p \in Callers : CacheGet(p)
    \/ \E p \in Callers : Fetch(p)
    \/ \E p \in Callers : CacheSet(p)
    \/ Expire

InitRace ==
    /\ scenario = "race"
    /\ arg = [league_id |-> JStr("L1")]
    /\ leagueResp = NoResp
    /\ usersResp = NoResp
    /\ rostersResp = NoResp
    /\ playersResp = NoResp
    /\ cache = NoCache
    /\ rosterArg = JNull
    /\ ret = [op |-> "race", exc |-> "none", val |-> JNull, stored |-> NoCache]
    /\ localTeams = NoDb
    /\ calls = [p \in Callers |-> NewCall]

SpecRace == InitRace /\ [][NextRace]_vars

\* The call of p failed: an except clause ran.
Failed(call) == call.pc = "done" /\ (call.handled # "none" \/ call.exc # "none")

\* What the claim asks of one step.
RaceStepSafe ==
    /\ \A p \in Callers :
          calls'[p].pc = "done" =>
             /\ calls'[p].exc = "none"
             /\ IF calls'[p].handled # "none" THEN calls'[p].val = EmptyCatalog
                ELSE IF calls'[p].hit
                     THEN calls[p].pc = "start" => calls'[p].val = ret.stored
                ELSE calls'[p].val = calls'[p].body /\ calls'[p].body.k = "dict"
    /\ cache' = NoCache \/ cache' = ret'.stored
    /\ \A p \in Callers :
          (calls'[p] # calls[p] /\ Failed(calls'[p])) => cache' = cache

\* C18: under every interleaving each finished call holds the payload of a
\* successful fetch (its own or the one it found cached) or, having failed,
\* the empty mapping; the cache holds nothing or the payload last set by a
\* successful call; and no step of a failing call changes the cache.
C18_RaceSafe == [][RaceStepSafe]_vars

====
